---- MODULE Spec2Model ----
(***************************************************************************)
(* Model of tsk3/img/img_open.c: tsk_img_open (validation, autodetection   *)
(* over the AFF and EWF backends, raw/split default, stat diagnosis and    *)
(* explicit-type routing) and tsk_img_close.                               *)
(*                                                                         *)
(* One call of tsk_img_open is a sequence of steps, one per backend call   *)
(* or decision of the function; pc is the position inside the function.    *)
(* The build configuration (HAVE_LIBAFFLIB, HAVE_LIBEWF, TSK_WIN32) is     *)
(* fixed at Init and never changes.                                        *)
(***************************************************************************)
EXTENDS Integers, Sequences, FiniteSets, TLC

VARIABLES
    HAVE_LIBAFFLIB,   \* build: the AFF backend is compiled in
    HAVE_LIBEWF,      \* build: the EWF backend is compiled in
    TSK_WIN32,        \* build: TSK_WIN32 or __CYGWIN__ is defined
    pc,               \* position of the caller / of tsk_img_open
    num_img,          \* argument num_img
    images0,          \* argument images[0] ("NULL" for a null pointer)
    type,             \* argument type
    a_ssize,          \* argument a_ssize
    tsk_errno,        \* Error Context: code ("0" is no error)
    tsk_errstr,       \* Error Context: primary message
    tsk_errstr2,      \* Error Context: secondary message
    img_info,         \* local img_info (0 is NULL, else an index of handles)
    img_set,          \* local img_set
    set,              \* local set ("NULL" or the format name)
    handles,          \* every TSK_IMG_INFO a backend created during the call
    calls,            \* the backend open calls made during the call, in order
    retval,           \* the value tsk_img_open returned (0 is NULL)
    stat_log,         \* the TSTAT calls of the call and their results
    close_arg,        \* the argument of the last tsk_img_close
    close_ctx,        \* the Error Context the last tsk_img_close was given
    utf8              \* the locals of tsk_img_open_utf8 under TSK_WIN32

vars == <<HAVE_LIBAFFLIB, HAVE_LIBEWF, TSK_WIN32, pc, num_img, images0, type,
          a_ssize, tsk_errno, tsk_errstr, tsk_errstr2, img_info, img_set, set,
          handles, calls, retval, stat_log, close_arg, close_ctx, utf8>>

build == <<HAVE_LIBAFFLIB, HAVE_LIBEWF, TSK_WIN32>>
args == <<num_img, images0, type, a_ssize>>
errctx == <<tsk_errno, tsk_errstr, tsk_errstr2>>
locals == <<img_info, img_set, set>>
hist == <<stat_log, close_arg, close_ctx>>

(***************************************************************************)
(* Bounds of the model.                                                    *)
(***************************************************************************)
MaxNumImg == 2
MaxSsize == 1025

\* the sector sizes the caller passes: 0, the values around every multiple
\* of 512 up to MaxSsize, and values well inside each interval
SectorSizes ==
    {s \in 0..MaxSsize : (s % 512) \in {0, 1, 2, 188, 256, 510, 511}}

\* images[0]: a null pointer, an ordinary path, a Windows object path
Paths == {"NULL", "image.dd", "\\\\.\\PhysicalDrive0"}

(***************************************************************************)
(* Types and error codes.                                                  *)
(***************************************************************************)
AffTypes == {"TSK_IMG_TYPE_AFF_AFF", "TSK_IMG_TYPE_AFF_AFD",
             "TSK_IMG_TYPE_AFF_AFM", "TSK_IMG_TYPE_AFF_ANY"}

ImgTypes == {"TSK_IMG_TYPE_DETECT", "TSK_IMG_TYPE_RAW_SING",
             "TSK_IMG_TYPE_RAW_SPLIT", "TSK_IMG_TYPE_EWF_EWF",
             "TSK_IMG_TYPE_UNSUPP"} \cup AffTypes

\* the codes a backend open function leaves in tsk_errno when it fails
BackendErrs == {"TSK_ERR_IMG_OPEN", "TSK_ERR_IMG_MAGIC"}

\* tsk_img_open_utf8 is not running: no array, no buffers
NoBridge ==
    [active |-> FALSE, array |-> FALSE, i |-> 0, images16 |-> <<>>,
     array_freed |-> 0, retval2 |-> "none", opened |-> FALSE]

\* a message: the format string of the snprintf and its arguments
Msg(fmt, d, s, s2) == [fmt |-> fmt, d |-> d, s |-> s, s2 |-> s2]
NoMsg == Msg("", 0, "", "")

Ctx(e, m, m2) == [errno |-> e, errstr |-> m, errstr2 |-> m2]

\* tsk_error_reset(): no error, both messages empty
tsk_error_reset == Ctx("0", NoMsg, NoMsg)

CurCtx == Ctx(tsk_errno, tsk_errstr, tsk_errstr2)

SetCtx(c) ==
    /\ tsk_errno' = c.errno
    /\ tsk_errstr' = c.errstr
    /\ tsk_errstr2' = c.errstr2

(***************************************************************************)
(* The backend interface: aff_open, ewf_open, raw_open, split_open.        *)
(* A backend returns a handle carrying its format tag and sets no error,   *)
(* or returns NULL without an error (it declines the files), or returns    *)
(* NULL and leaves an error code in tsk_errno.                             *)
(***************************************************************************)
BackendTags(fn) ==
    CASE fn = "aff_open" -> AffTypes
      [] fn = "ewf_open" -> {"TSK_IMG_TYPE_EWF_EWF"}
      [] fn = "raw_open" -> {"TSK_IMG_TYPE_RAW_SING"}
      [] fn = "split_open" -> {"TSK_IMG_TYPE_RAW_SPLIT"}

Outcomes(fn) ==
    {[ret |-> "handle", itype |-> t, err |-> "0"] : t \in BackendTags(fn)}
    \cup {[ret |-> "NULL", itype |-> "none", err |-> e] :
              e \in {"0"} \cup BackendErrs}

\* the Error Context after backend fn ended with outcome o
BackendCtx(c, fn, o) ==
    IF o.err = "0" THEN c
    ELSE Ctx(o.err, Msg(fn, 0, "", ""), c.errstr2)

\* the handle the call returns: a new entry of handles, or 0 for NULL
Ret(o) == IF o.ret = "handle" THEN Len(handles) + 1 ELSE 0

NewHandles(fn, o) ==
    IF o.ret = "handle"
    THEN Append(handles, [by |-> fn, itype |-> o.itype, closed |-> 0])
    ELSE handles

Log(fn, o) ==
    Append(calls, [fn |-> fn, ssize |-> a_ssize, ret |-> Ret(o),
                   err |-> o.err])

\* img_info->close(img_info): the backend's release function runs once more
close(hs, h) == [hs EXCEPT ![h].closed = @ + 1]

(***************************************************************************)
(* tsk_img_open: validation of the arguments (lines 83-102).               *)
(* The result is the Error Context the failed check leaves, or the reset   *)
(* context when every check passes.                                        *)
(***************************************************************************)
\* Validate without the multiple-of-512 check
Validate_nomod(n, img0, ss) ==
    IF (n = 0) \/ (img0 = "NULL")
    THEN Ctx("TSK_ERR_IMG_NOFILE", Msg("tsk_img_open", 0, "", ""), NoMsg)
    ELSE IF (ss > 0) /\ (ss < 512)
    THEN Ctx("TSK_ERR_IMG_ARG",
             Msg("sector size is less than 512 bytes (%d)", ss, "", ""),
             NoMsg)
    ELSE tsk_error_reset

\* Validate with the sector size checked before the path list
Validate_ssize_first(n, img0, ss) ==
    IF (ss > 0) /\ (ss < 512)
    THEN Ctx("TSK_ERR_IMG_ARG",
             Msg("sector size is less than 512 bytes (%d)", ss, "", ""),
             NoMsg)
    ELSE IF (ss % 512) # 0
    THEN Ctx("TSK_ERR_IMG_ARG",
             Msg("sector size is not a multiple of 512 (%d)", ss, "", ""),
             NoMsg)
    ELSE IF (n = 0) \/ (img0 = "NULL")
    THEN Ctx("TSK_ERR_IMG_NOFILE", Msg("tsk_img_open", 0, "", ""), NoMsg)
    ELSE tsk_error_reset

\* Validate with the floor test off by one (a_ssize < 511)
Validate_lt511(n, img0, ss) ==
    IF (n = 0) \/ (img0 = "NULL")
    THEN Ctx("TSK_ERR_IMG_NOFILE", Msg("tsk_img_open", 0, "", ""), NoMsg)
    ELSE IF (ss > 0) /\ (ss < 511)
    THEN Ctx("TSK_ERR_IMG_ARG",
             Msg("sector size is less than 512 bytes (%d)", ss, "", ""),
             NoMsg)
    ELSE IF (ss % 512) # 0
    THEN Ctx("TSK_ERR_IMG_ARG",
             Msg("sector size is not a multiple of 512 (%d)", ss, "", ""),
             NoMsg)
    ELSE tsk_error_reset

\* Validate with the wrong modulus (a_ssize % 256)
Validate_mod256(n, img0, ss) ==
    IF (n = 0) \/ (img0 = "NULL")
    THEN Ctx("TSK_ERR_IMG_NOFILE", Msg("tsk_img_open", 0, "", ""), NoMsg)
    ELSE IF (ss > 0) /\ (ss < 512)
    THEN Ctx("TSK_ERR_IMG_ARG",
             Msg("sector size is less than 512 bytes (%d)", ss, "", ""),
             NoMsg)
    ELSE IF (ss % 256) # 0
    THEN Ctx("TSK_ERR_IMG_ARG",
             Msg("sector size is not a multiple of 512 (%d)", ss, "", ""),
             NoMsg)
    ELSE tsk_error_reset

\* Validate with the floor test including 0 (a_ssize >= 0)
Validate_ge0(n, img0, ss) ==
    IF (n = 0) \/ (img0 = "NULL")
    THEN Ctx("TSK_ERR_IMG_NOFILE", Msg("tsk_img_open", 0, "", ""), NoMsg)
    ELSE IF (ss >= 0) /\ (ss < 512)
    THEN Ctx("TSK_ERR_IMG_ARG",
             Msg("sector size is less than 512 bytes (%d)", ss, "", ""),
             NoMsg)
    ELSE IF (ss % 512) # 0
    THEN Ctx("TSK_ERR_IMG_ARG",
             Msg("sector size is not a multiple of 512 (%d)", ss, "", ""),
             NoMsg)
    ELSE tsk_error_reset

\* Validate without the tsk_error_reset of line 81
Validate_noreset(n, img0, ss) ==
    IF (n = 0) \/ (img0 = "NULL")
    THEN Ctx("TSK_ERR_IMG_NOFILE", Msg("tsk_img_open", 0, "", ""), NoMsg)
    ELSE IF (ss > 0) /\ (ss < 512)
    THEN Ctx("TSK_ERR_IMG_ARG",
             Msg("sector size is less than 512 bytes (%d)", ss, "", ""),
             NoMsg)
    ELSE IF (ss % 512) # 0
    THEN Ctx("TSK_ERR_IMG_ARG",
             Msg("sector size is not a multiple of 512 (%d)", ss, "", ""),
             NoMsg)
    ELSE CurCtx

Validate(n, img0, ss) ==
    IF (n = 0) \/ (img0 = "NULL")
    THEN Ctx("TSK_ERR_IMG_NOFILE", Msg("tsk_img_open", 0, "", ""), NoMsg)
    ELSE IF (ss > 0) /\ (ss < 512)
    THEN Ctx("TSK_ERR_IMG_ARG",
             Msg("sector size is less than 512 bytes (%d)", ss, "", ""),
             NoMsg)
    ELSE IF (ss % 512) # 0
    THEN Ctx("TSK_ERR_IMG_ARG",
             Msg("sector size is not a multiple of 512 (%d)", ss, "", ""),
             NoMsg)
    ELSE tsk_error_reset

\* AfterEwf without the test of img_set at lines 162-163
AfterEwf_skip == "raw"

\* the first step after validation: the probes that are compiled in
AfterEwf == "img_set"
\* AfterAff without the EWF probe of lines 142-160
AfterAff_skip == AfterEwf

AfterAff == IF HAVE_LIBEWF THEN "ewf" ELSE AfterEwf
AfterValidate(t) ==
    IF t = "TSK_IMG_TYPE_DETECT"
    THEN (IF HAVE_LIBAFFLIB THEN "aff" ELSE AfterAff)
    ELSE "switch"

\* lines 73-122: entry, tsk_error_reset, validation, choice of the branch
tsk_img_open(n, img0, t, ss) ==
    /\ pc \in {"idle", "utf8_call"}
    /\ num_img' = n
    /\ images0' = img0
    /\ type' = t
    /\ a_ssize' = ss
    /\ img_info' = 0
    /\ img_set' = 0
    /\ set' = "NULL"
    /\ retval' = 0
    /\ SetCtx(Validate(n, img0, ss))
    /\ pc' = IF Validate(n, img0, ss).errno # "0" THEN "done"
             ELSE AfterValidate(t)
    /\ UNCHANGED <<build, handles, calls, hist>>

(***************************************************************************)
(* Autodetection (lines 114-210).                                          *)
(***************************************************************************)
\* AffAccept without the test for the unspecified variant
AffAccept_any(itype) == TRUE

\* AffAccept with the test inverted
AffAccept_inverted(itype) == itype = "TSK_IMG_TYPE_AFF_ANY"

\* line 129: the AFF handle counts as a match unless its itype is AFF_ANY
AffAccept(itype) == itype # "TSK_IMG_TYPE_AFF_ANY"

\* ProbeNull that stops the call on a backend error
ProbeNull_propagate(next, c) ==
    IF c.errno # "0" THEN [pc |-> "done", ctx |-> c]
    ELSE [pc |-> next, ctx |-> tsk_error_reset]

\* ProbeNull without the tsk_error_reset of the else branch
ProbeNull_keep(next, c) == [pc |-> next, ctx |-> c]

\* lines 137-139 and 157-159: the probe returned NULL; whatever the backend
\* left in the Error Context is cleared and detection goes on
ProbeNull(next, c) == [pc |-> next, ctx |-> tsk_error_reset]

\* CloseBoth that forgets the first candidate
CloseBoth_leak(hs, a, b) == close(hs, b)

\* lines 149-150: both candidates are closed
CloseBoth(hs, a, b) == close(close(hs, a), b)

\* Ambiguous with a message that leaves out the first format
Ambiguous_noset(s) ==
    Ctx("TSK_ERR_IMG_UNKTYPE", Msg("EWF or %s", 0, "", ""), NoMsg)

\* lines 151-153: the ambiguous-format error
Ambiguous(s) ==
    Ctx("TSK_ERR_IMG_UNKTYPE", Msg("EWF or %s", 0, s, ""), NoMsg)

\* lines 126-139
aff_probe ==
    /\ pc = "aff"
    /\ \E o \in Outcomes("aff_open") :
        LET h == Ret(o)
            hs == NewHandles("aff_open", o)
            c == BackendCtx(CurCtx, "aff_open", o)
        IN  /\ calls' = Log("aff_open", o)
            /\ img_info' = h
            /\ IF h # 0
               THEN /\ IF AffAccept(o.itype)
                       THEN /\ set' = "AFF"
                            /\ img_set' = h
                            /\ handles' = hs
                       ELSE /\ handles' = close(hs, h)
                            /\ UNCHANGED <<set, img_set>>
                    /\ SetCtx(c)
                    /\ pc' = AfterAff
               ELSE /\ SetCtx(ProbeNull(AfterAff, c).ctx)
                    /\ pc' = ProbeNull(AfterAff, c).pc
                    /\ handles' = hs
                    /\ UNCHANGED <<set, img_set>>
    /\ UNCHANGED <<build, args, retval, hist, utf8>>

\* lines 143-159
ewf_probe ==
    /\ pc = "ewf"
    /\ \E o \in Outcomes("ewf_open") :
        LET h == Ret(o)
            hs == NewHandles("ewf_open", o)
            c == BackendCtx(CurCtx, "ewf_open", o)
        IN  /\ calls' = Log("ewf_open", o)
            /\ img_info' = h
            /\ IF h # 0
               THEN IF set = "NULL"
                    THEN /\ set' = "EWF"
                         /\ img_set' = h
                         /\ handles' = hs
                         /\ SetCtx(c)
                         /\ pc' = AfterEwf
                    ELSE /\ handles' = CloseBoth(hs, img_set, h)
                         /\ SetCtx(Ambiguous(set))
                         /\ pc' = "done"
                         /\ UNCHANGED <<set, img_set>>
               ELSE /\ SetCtx(ProbeNull(AfterEwf, c).ctx)
                    /\ pc' = ProbeNull(AfterEwf, c).pc
                    /\ handles' = hs
                    /\ UNCHANGED <<set, img_set>>
    /\ UNCHANGED <<build, args, retval, hist, utf8>>

\* lines 162-163: a detected non-raw format is used
use_img_set ==
    /\ pc = "img_set"
    /\ IF img_set # 0
       THEN /\ retval' = img_set
            /\ pc' = "done"
       ELSE /\ retval' = retval
            /\ pc' = "raw"
    /\ UNCHANGED <<build, args, errctx, locals, handles, calls, hist, utf8>>

\* RawBackend that always takes the single-file backend
RawBackend_raw(n) == "raw_open"

\* line 166: the raw backend for one image, the split backend otherwise
RawBackend(n) == IF n = 1 THEN "raw_open" ELSE "split_open"

\* lines 166-181
raw_default ==
    /\ pc = "raw"
    /\ \E o \in Outcomes(RawBackend(num_img)) :
        LET fn == RawBackend(num_img)
            h == Ret(o)
            c == BackendCtx(CurCtx, fn, o)
        IN  /\ calls' = Log(fn, o)
            /\ handles' = NewHandles(fn, o)
            /\ img_info' = h
            /\ SetCtx(c)
            /\ IF h # 0
               THEN /\ retval' = h
                    /\ pc' = "done"
               ELSE IF c.errno # "0"
               THEN /\ retval' = 0
                    /\ pc' = "done"
               ELSE /\ retval' = retval
                    /\ pc' = "stat"
    /\ UNCHANGED <<build, args, img_set, set, hist, utf8>>

\* line 187: TSTRNCMP(_TSK_T("\\\\.\\"), images[0], 4) == 0
IsWinObject(p) == p = "\\\\.\\PhysicalDrive0"

\* strerror(errno) after a failed stat
StatReasons == {"No such file or directory", "Permission denied"}

\* StatCtx that never reports the failed stat
StatCtx_ignore(st, reason, win, p) ==
    Ctx("TSK_ERR_IMG_UNKTYPE", NoMsg, NoMsg)

\* lines 184-209; st is the result of TSTAT, reason is strerror(errno)
StatCtx(st, reason, win, p) ==
    IF (st < 0) /\ ~(win /\ IsWinObject(p))
    THEN Ctx("TSK_ERR_IMG_STAT", Msg("%s : %s", 0, p, reason), NoMsg)
    ELSE Ctx("TSK_ERR_IMG_UNKTYPE", NoMsg, NoMsg)

stat_check ==
    /\ pc = "stat"
    /\ \E st \in {-1, 0}, reason \in StatReasons :
        /\ SetCtx(StatCtx(st, reason, TSK_WIN32, images0))
        /\ stat_log' = Append(stat_log, [path |-> images0, ret |-> st,
                                         reason |-> reason])
    /\ retval' = 0
    /\ pc' = "done"
    /\ UNCHANGED <<build, args, locals, handles, calls, close_arg, close_ctx,
                   utf8>>

(***************************************************************************)
(* Explicit type (lines 217-260).                                          *)
(***************************************************************************)
\* ExplicitBackend without the rerouting by the number of images
ExplicitBackend_noswap(t, n, aff, ewf) ==
    IF t = "TSK_IMG_TYPE_RAW_SING" THEN "raw_open"
    ELSE IF t = "TSK_IMG_TYPE_RAW_SPLIT" THEN "split_open"
    ELSE IF aff /\ t \in AffTypes THEN "aff_open"
    ELSE IF ewf /\ t = "TSK_IMG_TYPE_EWF_EWF" THEN "ewf_open"
    ELSE "default"

\* the case of the switch the type selects: a backend, or "default"
ExplicitBackend(t, n, aff, ewf) ==
    IF t = "TSK_IMG_TYPE_RAW_SING"
    THEN (IF n > 1 THEN "split_open" ELSE "raw_open")
    ELSE IF t = "TSK_IMG_TYPE_RAW_SPLIT"
    THEN (IF n = 1 THEN "raw_open" ELSE "split_open")
    ELSE IF aff /\ t \in AffTypes THEN "aff_open"
    ELSE IF ewf /\ t = "TSK_IMG_TYPE_EWF_EWF" THEN "ewf_open"
    ELSE "default"

\* lines 254-256
Unsupported(t) ==
    Ctx("TSK_ERR_IMG_UNSUPTYPE", Msg("%d", 0, t, ""), NoMsg)

explicit_open ==
    /\ pc = "switch"
    /\ LET fn == ExplicitBackend(type, num_img, HAVE_LIBAFFLIB, HAVE_LIBEWF)
       IN  IF fn = "default"
           THEN /\ SetCtx(Unsupported(type))
                /\ retval' = 0
                /\ UNCHANGED <<img_info, handles, calls>>
           ELSE \E o \in Outcomes(fn) :
                /\ calls' = Log(fn, o)
                /\ handles' = NewHandles(fn, o)
                /\ img_info' = Ret(o)
                /\ retval' = Ret(o)
                /\ SetCtx(BackendCtx(CurCtx, fn, o))
    /\ pc' = "done"
    /\ UNCHANGED <<build, args, img_set, set, hist, utf8>>

(***************************************************************************)
(* tsk_img_open_sing (lines 46-52), tsk_img_open_utf8 (lines 300-365) and  *)
(* tsk_img_open_utf8_sing (lines 277-283).                                 *)
(***************************************************************************)
\* lines 46-52: a one-element path list
tsk_img_open_sing(a_image, t, ss) ==
    /\ pc = "idle"
    /\ tsk_img_open(1, a_image, t, ss)
    /\ UNCHANGED utf8

\* tsk_malloc of the array images16: every entry is a null pointer
tsk_malloc_array(n) == [k \in 1..n |-> [alloc |-> FALSE, freed |-> 0]]

\* the Error Context tsk_malloc leaves when the allocation fails
tsk_malloc_error ==
    Ctx("TSK_ERR_AUX_MALLOC", Msg("tsk_malloc", 0, "", ""), NoMsg)

\* the results of tsk_UTF8toUTF16 (lines 337-340)
ConversionResults == {"TSKconversionOK", "TSKsourceIllegal"}

\* the name of path k in the messages: images[0] is tracked, later paths of
\* a split image are not
PathName(k) == IF k = 1 THEN images0 ELSE "image.002"

\* lines 341-344: the conversion error; no tsk_error_reset, tsk_errstr2 stays
ConvertError(c, k, r) ==
    Ctx("TSK_ERR_IMG_CONVERT",
        Msg("tsk_img_open_utf8: Error converting image %s %d", 0,
            PathName(k), r),
        c.errstr2)

\* lines 300-318 and 363: without TSK_WIN32 the call is tsk_img_open; with it
\* the array images16 is allocated (ok) or the call returns NULL
tsk_img_open_utf8(n, img0, t, ss) ==
    /\ pc = "idle"
    /\ IF ~TSK_WIN32
       THEN /\ tsk_img_open(n, img0, t, ss)
            /\ UNCHANGED utf8
       ELSE /\ num_img' = n
            /\ images0' = img0
            /\ UNCHANGED <<type, a_ssize>>
            /\ \E ok \in BOOLEAN :
                IF ok
                THEN /\ utf8' = [NoBridge EXCEPT !.active = TRUE,
                                                 !.array = TRUE,
                                                 !.images16 =
                                                     tsk_malloc_array(n)]
                     /\ pc' = IF n = 0 THEN "utf8_call" ELSE "utf8_loop"
                     /\ UNCHANGED errctx
                ELSE /\ utf8' = [NoBridge EXCEPT !.active = TRUE]
                     /\ SetCtx(tsk_malloc_error)
                     /\ pc' = "utf8_done"
            /\ UNCHANGED <<build, locals, handles, calls, retval, hist>>

\* lines 277-283
tsk_img_open_utf8_sing(a_image, t, ss) ==
    tsk_img_open_utf8(1, a_image, t, ss)

\* lines 320-348: one round of the loop, for path utf8.i + 1; m is the result
\* of tsk_malloc for the buffer, r the result of tsk_UTF8toUTF16
utf8_convert ==
    /\ pc = "utf8_loop"
    /\ LET k == utf8.i + 1
       IN  \E m \in BOOLEAN, r \in ConversionResults :
            IF ~m
            THEN /\ r = "TSKconversionOK"
                 /\ utf8' = utf8
                 /\ SetCtx(tsk_malloc_error)
                 /\ pc' = "utf8_cleanup"
            ELSE IF r # "TSKconversionOK"
            THEN /\ utf8' = [utf8 EXCEPT !.images16[k].alloc = TRUE,
                                         !.retval2 = r]
                 /\ SetCtx(ConvertError(CurCtx, k, r))
                 /\ pc' = "utf8_cleanup"
            ELSE /\ utf8' = [utf8 EXCEPT !.images16[k].alloc = TRUE,
                                         !.retval2 = r,
                                         !.i = k]
                 /\ UNCHANGED errctx
                 /\ pc' = IF k = num_img THEN "utf8_call" ELSE "utf8_loop"
    /\ UNCHANGED <<build, args, locals, handles, calls, retval, hist>>

\* line 350: retval = tsk_img_open(num_img, images16, type, a_ssize); the
\* converted first path names the same file as images[0]
utf8_delegate ==
    /\ pc = "utf8_call"
    /\ \E t \in ImgTypes, ss \in SectorSizes :
        tsk_img_open(num_img, images0, t, ss)
    /\ utf8' = [utf8 EXCEPT !.opened = TRUE]

\* Cleanup that frees only the entries the loop finished
Cleanup_leak(imgs) ==
    [k \in DOMAIN imgs |->
        IF imgs[k].alloc /\ k <= utf8.i
        THEN [imgs[k] EXCEPT !.freed = @ + 1]
        ELSE imgs[k]]

\* lines 354-357: every non-null entry of images16 is freed
Cleanup(imgs) ==
    [k \in DOMAIN imgs |->
        IF imgs[k].alloc
        THEN [imgs[k] EXCEPT !.freed = @ + 1]
        ELSE imgs[k]]

\* lines 353-360: tsk_utf8_cleanup, reached by goto or after tsk_img_open
utf8_cleanup ==
    /\ \/ pc = "utf8_cleanup"
       \/ (pc = "done" /\ utf8.active)
    /\ utf8' = [utf8 EXCEPT !.images16 = Cleanup(@),
                            !.array_freed = @ + 1]
    /\ pc' = "utf8_done"
    /\ UNCHANGED <<build, args, errctx, locals, handles, calls, retval, hist>>

(***************************************************************************)
(* tsk_img_close (lines 458-465) and the caller.                           *)
(***************************************************************************)
\* the public operation has returned to the caller: tsk_img_open called
\* directly is at its return, tsk_img_open_utf8 is past its cleanup
CallerHasResult ==
    \/ (pc = "done" /\ ~utf8.active)
    \/ pc = "utf8_done"

\* tsk_img_close that returns without calling the release function
tsk_img_close_skip(a_img_info) ==
    /\ CallerHasResult
    /\ handles' = handles
    /\ close_arg' = a_img_info
    /\ close_ctx' = CurCtx
    /\ pc' = "closed"
    /\ UNCHANGED <<build, args, errctx, locals, calls, retval, stat_log, utf8>>

\* the caller closes the handle it was given, or passes NULL
tsk_img_close(a_img_info) ==
    /\ CallerHasResult
    /\ handles' = IF a_img_info = 0 THEN handles
                  ELSE close(handles, a_img_info)
    /\ close_arg' = a_img_info
    /\ close_ctx' = CurCtx
    /\ pc' = "closed"
    /\ UNCHANGED <<build, args, errctx, locals, calls, retval, stat_log, utf8>>

\* the caller is done with the call: the locals of tsk_img_open are gone,
\* the process-wide Error Context stays as the call left it
caller_next ==
    /\ (CallerHasResult \/ pc = "closed")
    /\ pc' = "idle"
    /\ num_img' = 0
    /\ images0' = "NULL"
    /\ type' = "TSK_IMG_TYPE_DETECT"
    /\ a_ssize' = 0
    /\ img_info' = 0
    /\ img_set' = 0
    /\ set' = "NULL"
    /\ handles' = <<>>
    /\ calls' = <<>>
    /\ retval' = 0
    /\ stat_log' = <<>>
    /\ close_arg' = 0
    /\ close_ctx' = tsk_error_reset
    /\ utf8' = NoBridge
    /\ UNCHANGED <<build, errctx>>

(***************************************************************************)
(* The specification.                                                      *)
(***************************************************************************)
Init ==
    /\ HAVE_LIBAFFLIB \in BOOLEAN
    /\ HAVE_LIBEWF \in BOOLEAN
    /\ TSK_WIN32 \in BOOLEAN
    /\ pc = "idle"
    /\ num_img = 0
    /\ images0 = "NULL"
    /\ type = "TSK_IMG_TYPE_DETECT"
    /\ a_ssize = 0
    /\ tsk_errno = "0"
    /\ tsk_errstr = NoMsg
    /\ tsk_errstr2 = NoMsg
    /\ img_info = 0
    /\ img_set = 0
    /\ set = "NULL"
    /\ handles = <<>>
    /\ calls = <<>>
    /\ retval = 0
    /\ stat_log = <<>>
    /\ close_arg = 0
    /\ close_ctx = tsk_error_reset
    /\ utf8 = NoBridge

\* the arguments a caller passes; images[0] is not read when num_img is 0
CallOpen ==
    \E n \in 0..MaxNumImg, img0 \in Paths, t \in ImgTypes, ss \in SectorSizes :
        /\ (n = 0) => (img0 = "NULL")
        /\ pc = "idle"
        /\ tsk_img_open(n, img0, t, ss)
        /\ UNCHANGED utf8

\* tsk_img_open_sing with any path
CallOpenSing ==
    \E a_image \in Paths, t \in ImgTypes, ss \in SectorSizes :
        tsk_img_open_sing(a_image, t, ss)

\* the arguments of tsk_img_open_utf8.  Under TSK_WIN32 every path is a
\* string (strlen reads it), and type and a_ssize are drawn by utf8_delegate,
\* where line 350 first reads them
Utf8Args(n, img0, t, ss) ==
    /\ (n = 0) => (img0 = "NULL")
    /\ TSK_WIN32 => /\ (n # 0) => (img0 # "NULL")
                    /\ t = "TSK_IMG_TYPE_DETECT"
                    /\ ss = 0

CallOpenUtf8 ==
    \E n \in 0..MaxNumImg, img0 \in Paths, t \in ImgTypes, ss \in SectorSizes :
        /\ Utf8Args(n, img0, t, ss)
        /\ tsk_img_open_utf8(n, img0, t, ss)

CallOpenUtf8Sing ==
    \E a_image \in Paths, t \in ImgTypes, ss \in SectorSizes :
        /\ Utf8Args(1, a_image, t, ss)
        /\ tsk_img_open_utf8_sing(a_image, t, ss)

CallClose ==
    \E a \in {0, retval} : tsk_img_close(a)

\* tsk_img_open is synchronous: once called, each step of it is taken
Fairness ==
    /\ WF_vars(aff_probe)
    /\ WF_vars(ewf_probe)
    /\ WF_vars(use_img_set)
    /\ WF_vars(raw_default)
    /\ WF_vars(stat_check)
    /\ WF_vars(explicit_open)

Next ==
    \/ CallOpenSing
    \/ CallOpen
    \/ CallOpenUtf8Sing
    \/ CallOpenUtf8
    \/ utf8_convert
    \/ utf8_delegate
    \/ utf8_cleanup
    \/ aff_probe
    \/ ewf_probe
    \/ use_img_set
    \/ raw_default
    \/ stat_check
    \/ explicit_open
    \/ CallClose
    \/ caller_next

Spec == Init /\ [][Next]_vars

SpecFair == Spec /\ Fairness

(***************************************************************************)
(* Properties.                                                             *)
(***************************************************************************)
Returned == pc = "done"
HandleIds == 1..Len(handles)
CallIds == 1..Len(calls)
NonRaw == {"aff_open", "ewf_open"}
RawFns == {"raw_open", "split_open"}

\* the words of the text snprintf writes for message m
Render(m) ==
    IF m.fmt = "EWF or %s" THEN <<"EWF", "or", m.s>>
    ELSE IF m.fmt = "%s : %s" THEN <<m.s, ":", m.s2>>
    ELSE IF m.fmt = "" THEN <<>>
    ELSE <<m.fmt>>

Mentions(m, w) == \E i \in DOMAIN Render(m) : Render(m)[i] = w

\* C1: when tsk_img_open returns, every handle a backend opened during the
\* call other than the returned one has been closed exactly once, and the
\* returned handle has not been closed.
C1_DiscardedClosedOnce ==
    Returned =>
        \A h \in HandleIds :
            handles[h].closed = (IF h = retval THEN 0 ELSE 1)

\* a call that discarded one candidate and returned another handle
C1_Witness ==
    /\ Returned
    /\ retval # 0
    /\ \E h \in HandleIds : h # retval /\ handles[h].closed = 1

\* AFF matched with a concrete variant and EWF matched too
BothMatched ==
    /\ type = "TSK_IMG_TYPE_DETECT"
    /\ \E i \in CallIds :
          /\ calls[i].fn = "aff_open"
          /\ calls[i].ret # 0
          /\ handles[calls[i].ret].itype # "TSK_IMG_TYPE_AFF_ANY"
    /\ \E j \in CallIds : calls[j].fn = "ewf_open" /\ calls[j].ret # 0

FailedProbe(i) ==
    /\ type = "TSK_IMG_TYPE_DETECT"
    /\ calls[i].fn \in NonRaw
    /\ calls[i].ret = 0
    /\ calls[i].err # "0"

C4_HandleWithoutError ==
    (Returned /\ retval # 0) => (tsk_errno = "0")

\* a handle is returned although a backend failed with an error on the way
C4_Witness ==
    /\ Returned
    /\ retval # 0
    /\ \E i \in CallIds : calls[i].err # "0"

\* C5 as stated: every handle tsk_img_open returns, under DETECT or under any
\* explicit type, carries a concrete tag and never the unspecified AFF tag.
C5_Original ==
    (Returned /\ retval # 0) =>
        (handles[retval].itype # "TSK_IMG_TYPE_AFF_ANY")

\* C5 amended: every handle tsk_img_open returns under DETECT or under an
\* explicit type other than the four AFF tags carries a concrete tag and
\* never the unspecified AFF tag.
C5_ConcreteTagUnlessAffRequested ==
    (Returned /\ retval # 0 /\ type \notin AffTypes) =>
        (handles[retval].itype # "TSK_IMG_TYPE_AFF_ANY")

\* autodetection returned the handle of the AFF backend
C5_Witness ==
    /\ Returned
    /\ type = "TSK_IMG_TYPE_DETECT"
    /\ retval # 0
    /\ handles[retval].by = "aff_open"

\* the type is a concrete tag whose backend is not compiled in
NotCompiledIn ==
    \/ type = "TSK_IMG_TYPE_UNSUPP"
    \/ (type \in AffTypes /\ ~HAVE_LIBAFFLIB)
    \/ (type = "TSK_IMG_TYPE_EWF_EWF" /\ ~HAVE_LIBEWF)

InvalidArgs ==
    \/ num_img = 0
    \/ (a_ssize # 0 /\ a_ssize < 512)
    \/ (a_ssize % 512) # 0
    \/ NotCompiledIn

\* C6: a call that fails validation has called no backend, and a backend is
\* only ever called with a sector size that is 0 or a multiple of 512 that
\* is at least 512.
C6_InvalidInputsReachNoBackend ==
    /\ InvalidArgs => (calls = <<>>)
    /\ \A i \in CallIds :
          \/ calls[i].ssize = 0
          \/ (calls[i].ssize >= 512 /\ calls[i].ssize % 512 = 0)

\* a call with two paths and sector size 513 was rejected
C6_Witness ==
    /\ Returned
    /\ num_img = 2
    /\ a_ssize = 513
    /\ retval = 0
    /\ tsk_errno = "TSK_ERR_IMG_ARG"
    /\ calls = <<>>

\* C7: an empty path list gives no handle and code NOFILE, whatever the type
\* and the sector size.
C7_EmptyPathListNoFile ==
    (Returned /\ num_img = 0) =>
        (retval = 0 /\ tsk_errno = "TSK_ERR_IMG_NOFILE")

\* an empty path list together with an invalid sector size
C7_Witness ==
    /\ Returned
    /\ num_img = 0
    /\ a_ssize = 511
    /\ tsk_errno = "TSK_ERR_IMG_NOFILE"

\* the path list has at least one entry and the first is a path
NonEmptyPaths == num_img # 0 /\ images0 # "NULL"

\* C8: a sector size in 1..511 with a non-empty path list gives no handle,
\* code ARG and the "less than 512" message, for every type.
C8_BelowFloorArg ==
    (Returned /\ NonEmptyPaths /\ a_ssize \in 1..511) =>
        /\ retval = 0
        /\ tsk_errno = "TSK_ERR_IMG_ARG"
        /\ tsk_errstr =
              Msg("sector size is less than 512 bytes (%d)", a_ssize, "", "")

C8_Witness ==
    /\ Returned
    /\ NonEmptyPaths
    /\ a_ssize = 511
    /\ tsk_errno = "TSK_ERR_IMG_ARG"

\* C9 as stated: every positive sector size that is not a multiple of 512
\* gives no handle, code ARG and the "not a multiple of 512" message.
C9_Original ==
    (Returned /\ NonEmptyPaths /\ a_ssize > 0 /\ a_ssize % 512 # 0) =>
        /\ retval = 0
        /\ tsk_errno = "TSK_ERR_IMG_ARG"
        /\ tsk_errstr =
              Msg("sector size is not a multiple of 512 (%d)", a_ssize, "", "")

\* C9 amended: every sector size greater than 512 that is not a multiple of
\* 512 gives no handle, code ARG and the "not a multiple of 512" message
\* (a value in 1..511 gets the "less than 512" message instead).
C9_NotMultipleArg ==
    (Returned /\ NonEmptyPaths /\ a_ssize > 512 /\ a_ssize % 512 # 0) =>
        /\ retval = 0
        /\ tsk_errno = "TSK_ERR_IMG_ARG"
        /\ tsk_errstr =
              Msg("sector size is not a multiple of 512 (%d)", a_ssize, "", "")

C9_Witness ==
    /\ Returned
    /\ NonEmptyPaths
    /\ a_ssize = 768
    /\ tsk_errno = "TSK_ERR_IMG_ARG"

\* C10: a call with sector size 0 never ends with code ARG.
C10_ZeroNeverArg ==
    (Returned /\ a_ssize = 0) => (tsk_errno # "TSK_ERR_IMG_ARG")

\* a call with sector size 0 that reached a backend and failed
C10_Witness ==
    /\ Returned
    /\ a_ssize = 0
    /\ calls # <<>>
    /\ retval = 0
    /\ tsk_errno # "0"

\* the arguments pass validation
ValidArgs == NonEmptyPaths /\ ~InvalidArgs

\* the backend calls of autodetection that gave an accepted match
Accepted ==
    {i \in CallIds :
        /\ calls[i].fn \in NonRaw
        /\ calls[i].ret # 0
        /\ handles[calls[i].ret].itype # "TSK_IMG_TYPE_AFF_ANY"}

RawCalls == {i \in CallIds : calls[i].fn \in RawFns}

\* C11: with an explicit raw type (RAW_SING or RAW_SPLIT) exactly one backend
\* is called, the single-file raw backend for one path and the split backend
\* for more than one, whichever raw tag was requested, and the call returns
\* that backend's handle or failure unchanged.
C11_RawRoutingByCount ==
    (Returned /\ ValidArgs
        /\ type \in {"TSK_IMG_TYPE_RAW_SING", "TSK_IMG_TYPE_RAW_SPLIT"}) =>
        /\ Len(calls) = 1
        /\ calls[1].fn = (IF num_img = 1 THEN "raw_open" ELSE "split_open")
        /\ retval = calls[1].ret
        /\ tsk_errno = calls[1].err

\* RAW_SING with two paths went to the split backend
C11_Witness ==
    /\ Returned
    /\ type = "TSK_IMG_TYPE_RAW_SING"
    /\ num_img = 2
    /\ Len(calls) = 1
    /\ calls[1].fn = "split_open"

\* C12: under DETECT with no accepted non-raw match exactly one default
\* backend is attempted, raw_open for one path and split_open otherwise; its
\* handle is returned, and its failure with an error set is returned as no
\* handle with that error code.
C12_RawDefault ==
    (Returned /\ ValidArgs /\ type = "TSK_IMG_TYPE_DETECT" /\ Accepted = {}) =>
        /\ Cardinality(RawCalls) = 1
        /\ Len(calls) \in RawCalls
        /\ LET c == calls[Len(calls)]
           IN  /\ c.fn = (IF num_img = 1 THEN "raw_open" ELSE "split_open")
               /\ (c.ret # 0) => (retval = c.ret)
               /\ (c.ret = 0 /\ c.err # "0") =>
                      (retval = 0 /\ tsk_errno = c.err)

\* the split default failed with an error under autodetection of two paths
C12_Witness ==
    /\ Returned
    /\ type = "TSK_IMG_TYPE_DETECT"
    /\ num_img = 2
    /\ calls # <<>>
    /\ calls[Len(calls)].fn = "split_open"
    /\ calls[Len(calls)].err # "0"
    /\ retval = 0

\* the calls of aff_open that returned a handle of the unspecified variant
AnyProbes ==
    {i \in CallIds :
        /\ calls[i].fn = "aff_open"
        /\ calls[i].ret # 0
        /\ handles[calls[i].ret].itype = "TSK_IMG_TYPE_AFF_ANY"}

EwfMatches == {j \in CallIds : calls[j].fn = "ewf_open" /\ calls[j].ret # 0}

\* C16: under DETECT a handle of the AFF unspecified variant is closed at
\* once and counts as no match: if EWF then matches the call returns the EWF
\* handle without error, otherwise the raw/split default is attempted.
C16_AffAnyIsNoMatch ==
    (type = "TSK_IMG_TYPE_DETECT") =>
        \A i \in AnyProbes :
            /\ handles[calls[i].ret].closed = 1
            /\ img_set # calls[i].ret
            /\ Returned =>
                  IF EwfMatches # {}
                  THEN /\ \A j \in EwfMatches : retval = calls[j].ret
                       /\ tsk_errno = "0"
                       /\ RawCalls = {}
                  ELSE /\ Cardinality(RawCalls) = 1
                       /\ Len(calls) \in RawCalls

\* AFF gave the unspecified variant, EWF matched and its handle is returned
C16_Witness ==
    /\ Returned
    /\ type = "TSK_IMG_TYPE_DETECT"
    /\ Len(handles) = 2
    /\ handles[1].itype = "TSK_IMG_TYPE_AFF_ANY"
    /\ handles[2].by = "ewf_open"
    /\ retval = 2

\* C17: under DETECT, once a non-raw match is accepted neither raw_open nor
\* split_open is called, and when exactly one match was accepted the call
\* returns that backend's handle, unclosed, also when the other non-raw
\* backend failed or declined afterwards.
C17_MatchSkipsRaw ==
    (type = "TSK_IMG_TYPE_DETECT" /\ Accepted # {}) =>
        /\ RawCalls = {}
        /\ (Returned /\ Cardinality(Accepted) = 1) =>
              \A i \in Accepted :
                  /\ retval = calls[i].ret
                  /\ handles[retval].closed = 0

\* AFF matched, EWF then failed with an error, the AFF handle is returned
C17_Witness ==
    /\ Returned
    /\ type = "TSK_IMG_TYPE_DETECT"
    /\ Len(calls) = 2
    /\ calls[1].ret = 1
    /\ calls[2].err # "0"
    /\ retval = 1

\* C19: whenever tsk_img_open returns no handle the Error Context holds a
\* nonzero code, also when an explicitly requested backend declines by
\* returning no handle without an error.
C19_NullImpliesError ==
    (Returned /\ retval = 0) => (tsk_errno # "0")

\* autodetection reached the stat of the first path and the stat failed
StatFailed ==
    /\ Returned
    /\ type = "TSK_IMG_TYPE_DETECT"
    /\ stat_log # <<>>
    /\ stat_log[Len(stat_log)].ret < 0

\* the first path names a Windows object and the build is a Windows build
StatExempt == TSK_WIN32 /\ IsWinObject(images0)

\* C13 as stated: under autodetection, when no backend matched and the stat
\* of the first path fails, the call returns no handle with code STAT and a
\* message that contains the reason the OS gave.
C13_Original ==
    StatFailed =>
        /\ retval = 0
        /\ tsk_errno = "TSK_ERR_IMG_STAT"
        /\ Mentions(tsk_errstr, stat_log[Len(stat_log)].reason)

\* C13 (amended): under autodetection, when no backend matched and the stat
\* of the first path fails, the call returns no handle; the code is STAT and
\* the message holds the path and the reason the OS gave, unless the build is
\* a Windows build and the first path starts with \\.\ : then the failed stat
\* is ignored and the code is UNKTYPE with empty messages.
C13_StatErrorUnlessWinObject ==
    StatFailed =>
        /\ retval = 0
        /\ calls # <<>>
        /\ \A i \in CallIds : calls[i].ret = 0 \/ calls[i].fn \in NonRaw
        /\ Accepted = {}
        /\ IF StatExempt
           THEN /\ tsk_errno = "TSK_ERR_IMG_UNKTYPE"
                /\ tsk_errstr = NoMsg
                /\ tsk_errstr2 = NoMsg
           ELSE /\ tsk_errno = "TSK_ERR_IMG_STAT"
                /\ Mentions(tsk_errstr, images0)
                /\ Mentions(tsk_errstr, stat_log[Len(stat_log)].reason)

\* a failed stat of an ordinary path, and the same run is possible for a
\* Windows object on a Windows build
C13_Witness ==
    /\ StatFailed
    /\ ~StatExempt
    /\ tsk_errno = "TSK_ERR_IMG_STAT"
    /\ stat_log[Len(stat_log)].reason = "Permission denied"

\* C15: tsk_img_close on a null handle calls no release function (every
\* handle is as tsk_img_open left it) and leaves the Error Context unchanged;
\* on a non-null handle it calls the release function of the backend that
\* owns the handle exactly once, and of no other handle.
C15_CloseNullNoopElseOnce ==
    (pc = "closed") =>
        IF close_arg = 0
        THEN /\ CurCtx = close_ctx
             /\ \A h \in HandleIds :
                   handles[h].closed = (IF h = retval THEN 0 ELSE 1)
        ELSE /\ close_arg = retval
             /\ close_arg \in HandleIds
             /\ handles[close_arg].closed = 1
             /\ \E i \in CallIds :
                   /\ calls[i].ret = close_arg
                   /\ calls[i].fn = handles[close_arg].by
             /\ \A h \in HandleIds : handles[h].closed = 1

\* the caller closed the handle the open call returned: released once
C15_Witness ==
    /\ pc = "closed"
    /\ close_arg # 0
    /\ close_arg = retval
    /\ handles[close_arg].closed = 1

\* C14 as stated: every public operation resets the Error Context on entry;
\* tsk_img_close sets no error of its own, so after it returned from a null
\* handle the Error Context shows no error.
C14_Original == (pc = "closed" /\ close_arg = 0) => tsk_errno = "0"

\* C14 (amended): tsk_img_open resets the Error Context on entry, whoever
\* calls it: past its entry and before any backend call the context is empty,
\* and a call that fails validation returns with the validation error of
\* this call alone, whatever an earlier operation left.  tsk_img_close
\* resets nothing: it leaves the Error Context as the operation before it
\* left it.  The failed conversion of tsk_img_open_utf8 comes before the
\* tsk_img_open call and sets code CONVERT and its own primary message.
C14_ResetByOpenNotByClose ==
    /\ (pc \in {"aff", "ewf", "img_set", "raw", "switch"} /\ calls = <<>>) =>
          CurCtx = tsk_error_reset
    /\ (Returned /\ Validate(num_img, images0, a_ssize).errno # "0") =>
          /\ CurCtx = Validate(num_img, images0, a_ssize)
          /\ calls = <<>>
          /\ tsk_errno \in {"TSK_ERR_IMG_NOFILE", "TSK_ERR_IMG_ARG"}
    /\ (pc = "closed") => (CurCtx = close_ctx)
    /\ (pc \in {"utf8_cleanup", "utf8_done"}
            /\ utf8.retval2 = "TSKsourceIllegal") =>
          /\ tsk_errno = "TSK_ERR_IMG_CONVERT"
          /\ tsk_errstr.fmt =
                "tsk_img_open_utf8: Error converting image %s %d"
          /\ ~utf8.opened

\* tsk_img_close has returned and the error of the failed open before it is
\* still in the Error Context
C14_Witness ==
    /\ pc = "closed"
    /\ close_arg = 0
    /\ retval = 0
    /\ tsk_errno = "TSK_ERR_IMG_ARG"
    /\ close_ctx.errno = "TSK_ERR_IMG_ARG"
    /\ Mentions(tsk_errstr, "sector size is less than 512 bytes (%d)")

\* tsk_img_open_utf8 of a Windows build allocated images16 and has returned
BridgeExited ==
    /\ utf8.active
    /\ utf8.array
    /\ pc \in {"utf8_done", "closed"}

Buffers == DOMAIN utf8.images16

\* C20: in tsk_img_open_utf8 of a build whose native paths are not UTF-8,
\* once the array is allocated every exit path releases every buffer that
\* was allocated exactly once, releases no entry that was never allocated,
\* and releases the array once; nothing is released before the exit.  This
\* holds when the allocation or the conversion of a path fails (the entries
\* after that path were never allocated) and when the delegated tsk_img_open
\* fails or succeeds.  After a failed conversion the result is no handle with
\* code CONVERT, and tsk_img_open was never called.
C20_BridgeReleasesBuffers ==
    /\ \A k \in Buffers :
          /\ utf8.images16[k].freed <= 1
          /\ (utf8.images16[k].freed = 1) => utf8.images16[k].alloc
          /\ (k > utf8.i + 1) => ~utf8.images16[k].alloc
    /\ (utf8.active /\ pc \notin {"utf8_done", "closed"}) =>
          /\ utf8.array_freed = 0
          /\ \A k \in Buffers : utf8.images16[k].freed = 0
    /\ BridgeExited =>
          /\ utf8.array_freed = 1
          /\ Len(utf8.images16) = num_img
          /\ \A k \in Buffers :
                utf8.images16[k].freed =
                    (IF utf8.images16[k].alloc THEN 1 ELSE 0)
          /\ utf8.opened <=> (utf8.i = num_img)
    /\ (BridgeExited /\ utf8.retval2 = "TSKsourceIllegal") =>
          /\ retval = 0
          /\ tsk_errno = "TSK_ERR_IMG_CONVERT"
          /\ ~utf8.opened
          /\ calls = <<>>

\* the conversion of the first of two paths failed: its buffer was released
\* once, the second entry was never allocated and never released
C20_Witness ==
    /\ BridgeExited
    /\ num_img = 2
    /\ utf8.retval2 = "TSKsourceIllegal"
    /\ utf8.images16[1] = [alloc |-> TRUE, freed |-> 1]
    /\ utf8.images16[2] = [alloc |-> FALSE, freed |-> 0]
    /\ tsk_errno = "TSK_ERR_IMG_CONVERT"

\* an autodetection call with valid inputs is running
Detecting == pc \in {"aff", "ewf", "img_set", "raw", "stat"}

\* the calls of backend fn during the call
CallsOf(fn) == {i \in CallIds : calls[i].fn = fn}

\* the terminal states of autodetection
InTerminal(s) ==
    IF s = "Success" THEN retval # 0 /\ tsk_errno = "0"
    ELSE IF s = "Ambiguous"
    THEN retval = 0 /\ BothMatched /\ tsk_errno = "TSK_ERR_IMG_UNKTYPE"
    ELSE IF s = "HardError"
    THEN retval = 0 /\ tsk_errno \in BackendErrs /\ stat_log = <<>>
    ELSE IF s = "StatError"
    THEN retval = 0 /\ tsk_errno = "TSK_ERR_IMG_STAT" /\ stat_log # <<>>
    ELSE /\ retval = 0
         /\ tsk_errno = "TSK_ERR_IMG_UNKTYPE"
         /\ stat_log # <<>>
         /\ ~BothMatched

Terminals ==
    {"Success", "Ambiguous", "HardError", "StatError", "UnknownFormat"}

\* the order of the steps of autodetection
DetectOrder ==
    /\ Cardinality(CallsOf("aff_open")) <= 1
    /\ Cardinality(CallsOf("ewf_open")) <= 1
    /\ \A i \in CallsOf("aff_open"), j \in CallsOf("ewf_open") : i < j
    /\ (CallsOf("aff_open") # {}) => HAVE_LIBAFFLIB
    /\ (CallsOf("ewf_open") # {}) => HAVE_LIBEWF
    /\ (pc = "raw" \/ RawCalls # {}) =>
          /\ HAVE_LIBAFFLIB => (CallsOf("aff_open") # {})
          /\ HAVE_LIBEWF => (CallsOf("ewf_open") # {})
          /\ Accepted = {}
          /\ \A i \in RawCalls : i = Len(calls)
          /\ \A i \in CallIds \ RawCalls, j \in RawCalls : i < j
    /\ (pc = "stat" \/ stat_log # <<>>) =>
          /\ RawCalls # {}
          /\ calls[Len(calls)].ret = 0
          /\ calls[Len(calls)].err = "0"
          /\ Len(stat_log) <= 1

\* C18: every autodetection call of tsk_img_open with valid inputs returns,
\* in exactly one of the terminal states Success, Ambiguous, HardError,
\* StatError, UnknownFormat; it probes each non-raw backend at most once, AFF
\* before EWF; it calls the raw default only after every compiled-in probe
\* was made and none gave an accepted match; it stats the first path only
\* after the raw default returned no handle and no error.
C18_DetectStateMachine ==
    /\ [](type = "TSK_IMG_TYPE_DETECT" => DetectOrder)
    /\ []((Returned /\ type = "TSK_IMG_TYPE_DETECT" /\ ValidArgs) =>
            Cardinality({s \in Terminals : InTerminal(s)}) = 1)
    /\ [](Detecting => (type = "TSK_IMG_TYPE_DETECT" /\ ValidArgs))
    /\ (Detecting ~> Returned)

\* a call that went through every state: both probes, the raw default, the
\* stat, and ended in UnknownFormat
C18_Witness ==
    /\ Returned
    /\ type = "TSK_IMG_TYPE_DETECT"
    /\ Len(calls) = 3
    /\ calls[1].fn = "aff_open"
    /\ calls[2].fn = "ewf_open"
    /\ calls[3].fn \in RawFns
    /\ stat_log # <<>>
    /\ InTerminal("UnknownFormat")

====
